---- MODULE Spec2Model ----
(***************************************************************************)
(* The serving core of the dev server: the in-memory file reader           *)
(* (cachedRead), the module rewrite middleware with its rewrite cache      *)
(* (moduleRewritePlugin, rewriteImports, resolveImport), the importer /    *)
(* importee graph, and the watcher's change handlers.                      *)
(*                                                                         *)
(* Strings are modelled structurally.  A URL or import specifier is a      *)
(* record [p, q]: p the path text before any `?`, q the query as a         *)
(* sequence of parameters [sep, k, v] (sep is the `?` or `&` written in     *)
(* front of the parameter).  A source text is a sequence of tokens.        *)
(***************************************************************************)
EXTENDS Integers, Sequences, FiniteSets, TLC

\* ---------------------------------------------------------------- bounds
MaxMods == 2         \* writes to the disk in one behaviour
MaxClock == 1        \* largest HMR timestamp (Date.now() of a change event)
MaxRequests == 3     \* requests served in one behaviour
MaxStamp == 2        \* largest HMR timestamp where refetches carry two

\* ------------------------------------------------------------- strings
Param(sep, k, v) == [sep |-> sep, k |-> k, v |-> v]
Id(p, q) == [p |-> p, q |-> q]
Plain(p) == Id(p, <<>>)

clientPublicPath == Plain("/vite/client")
envPublicPath == Plain("/vite/env")

\* utils: cleanUrl strips the hash and the query
cleanUrl(url) == [url EXCEPT !.q = <<>>]

\* id.includes(`?`)
\* (a variant that finds no query in any id)
HasQueryNever(id) == FALSE
HasQuery(id) == \E i \in 1..Len(id.q) : id.q[i].sep = "?"

\* id += `${id.includes(`?`) ? `&` : `?`}t=${t}`
\* (a variant that leaves the id without the parameter)
AppendTDropped(id, t) == id
AppendT(id, t) ==
  [id EXCEPT !.q = Append(id.q, Param(IF HasQuery(id) THEN "&" ELSE "?", "t", t))]

RECURSIVE DropHmrParams(_)
DropHmrParams(q) ==
  IF q = <<>> THEN <<>>
  ELSE IF Head(q).k \in {"t", "import"} THEN DropHmrParams(Tail(q))
       ELSE <<Head(q)>> \o DropHmrParams(Tail(q))

\* qs.stringify joins the remaining parameters with `&` behind one `?`
Stringify(q) ==
  [i \in 1..Len(q) |-> [q[i] EXCEPT !.sep = IF i = 1 THEN "?" ELSE "&"]]

\* utils: removeUnRelatedHmrQuery deletes the t and import parameters and
\* keeps every other parameter of the url
removeUnRelatedHmrQuery(url) == [url EXCEPT !.q = Stringify(DropHmrParams(url.q))]

\* ctx.query.t ("0" stands for an absent parameter)
NoT == 0
QueryT(url) ==
  IF \E i \in 1..Len(url.q) : url.q[i].k = "t"
  THEN (url.q[CHOOSE i \in 1..Len(url.q) : url.q[i].k = "t"]).v
  ELSE NoT

\* ------------------------------------------------------------- resolver
\* The project: /a.js and /b.js are served files, /logo.png an asset, vue a
\* package; "nope" is a specifier the resolver fails on (ResolveError).
BareNames == {"vue", "nope"}
UnresolvableNames == {"nope"}
ExternalNames == {"http://cdn/x.js"}
JsPaths == {"/a.js", "/b.js", "/@modules/vue", "/vite/client", "/vite/env"}

isExternalUrl(id) == id.p \in ExternalNames
bareImportRE(id) == id.p \in BareNames
alias(id) == id
resolveBareModuleRequest(id) == id.p

\* resolveRelativeRequest: the pathname against the importer's directory
\* (every module lives in the root directory)
resolveRelativeRequest(id) ==
  [pathname |-> CASE id.p = "./a" -> "/a"
                  [] id.p = "./b" -> "/b"
                  [] id.p = "./logo.png" -> "/logo.png"
                  [] OTHER -> id.p,
   query |-> id.q]

\* normalizePublicPath: adds the missing extension
normalizePublicPath(pathname) ==
  CASE pathname = "/a" -> "/a.js"
    [] pathname = "/b" -> "/b.js"
    [] OTHER -> pathname

\* path.extname(pathname) && !jsSrcRE.test(pathname)
IsNonSrcFile(pathname) == pathname \in {"/logo.png"}

ResolveThrows(id) == id.p \in UnresolvableNames

\* ------------------------------------------------------------- sources
\* A source text is a sequence of tokens.  k is "import" (an import
\* specifier found by the lexer: dyn "static", "literal" for import('x'),
\* "expr" for import(expression)), "hot" (text mentioning import.meta.hot),
\* "accept" (a call import.meta.hot.accept()), "env" (text mentioning
\* import.meta.env), "code" (any other statement) or "jsx" (syntax the
\* lexer cannot parse).
NoId == Plain("")
Tok(k, dyn, id) == [k |-> k, dyn |-> dyn, id |-> id]
Imp(dyn, p) == Tok("import", dyn, Plain(p))
Code(k) == Tok(k, "", NoId)

SrcImportB == <<Imp("static", "./b"), Imp("static", "./logo.png")>>
SrcBroken == <<Imp("static", "./logo.png"), Imp("static", "nope")>>
SrcEnv == <<Imp("static", "vue"), Code("env")>>
SrcAccept == <<Code("accept")>>
SrcPlain == <<Code("code")>>

\* further texts of a.js: a dynamic import of a literal, a dynamic import of
\* an expression, an external url, an import of the module itself and one of
\* the client; texts the lexer cannot parse
SrcMixed == <<Imp("literal", "./b"), Imp("expr", "name"),
              Imp("static", "http://cdn/x.js"), Imp("static", "./a"),
              Tok("import", "static", clientPublicPath)>>
SrcJsx == <<Code("jsx"), Imp("static", "./b")>>
SrcJsxEnv == <<Code("jsx"), Code("env")>>
RewriteSources == {SrcImportB, SrcPlain, SrcMixed, SrcJsx, SrcJsxEnv}

\* a file that is no script: two versions of its bytes
Bytes1 == <<Code("bytes1")>>
Bytes2 == <<Code("bytes2")>>

ModuleFiles == {"/a.js", "/b.js"}
AssetFiles == {"/logo.png"}
\* files outside the project root, served through user aliases
OutFiles == {"/ext.png", "/sib.png", "/dep.png"}
Files == ModuleFiles \cup AssetFiles \cup OutFiles

\* The disk: the project root is /proj.  A path on disk is the sequence of
\* the pieces it is written with, so that a prefix of the string is a
\* prefix of the sequence.
root == <<"/", "proj">>
FsPath(file) ==
  CASE file = "/a.js" -> <<"/", "proj", "/", "a.js">>
    [] file = "/b.js" -> <<"/", "proj", "/", "b.js">>
    [] file = "/logo.png" -> <<"/", "proj", "/", "logo.png">>
    [] file = "/ext.png" -> <<"/", "ext", "/", "ext.png">>
    [] file = "/sib.png" -> <<"/", "proj", "-lib", "/", "sib.png">>
    [] file = "/dep.png" -> <<"/", "ext", "/", "node_modules", "/", "dep.png">>
\* file.startsWith(root), /node_modules/.test(file)
startsWith(s, prefix) ==
  Len(prefix) <= Len(s) /\ SubSeq(s, 1, Len(prefix)) = prefix
TestNodeModules(s) == \E i \in 1..Len(s) : s[i] = "node_modules"
Contents(f) ==
  CASE f = "/a.js" -> {SrcImportB, SrcBroken, SrcEnv}
    [] f = "/b.js" -> {SrcAccept, SrcPlain}
    [] OTHER -> {Bytes1, Bytes2}
InitialContent(f) ==
  CASE f = "/a.js" -> SrcImportB
    [] f = "/b.js" -> SrcAccept
    [] OTHER -> Bytes1
AllContents == UNION {Contents(f) : f \in Files}

NoBody == <<>>

\* ------------------------------------------------------------- state
VARIABLES
  fs,                 \* file -> [content, mtime]: the disk
  changed,            \* files with a change event the watcher has not delivered
  fsReadCache,        \* file -> NoEntry or [lastModified, etag, content]
  seenUrls,           \* urls answered by a cache hit of cachedRead
  ctx,                \* request slot -> the Koa context of the request in it
  watch,              \* file -> the rewrite plugin's change handler for it
  rewriteCache,       \* <<publicPath, content>> -> rewritten body
  importerMap,        \* importee -> set of importers
  importeeMap,        \* importer -> set of importees
  hmrBoundaries,      \* modules known to accept themselves
  hmrDirtyFilesMap,   \* timestamp -> dirty set of the change at that time
  latestVersionsMap,  \* module -> timestamp of its last change
  clock,              \* the last timestamp handed out
  nreq,               \* requests served so far
  nmods,              \* writes to the disk so far
  requestedUrls,      \* urls requested so far (history)
  abortedImporters,   \* importers whose last rewrite hit the catch block (history)
  watched,            \* files added to the watcher by watcher.add
  last                \* what the last step did (history, read by no action)

vars == <<fs, changed, fsReadCache, seenUrls, ctx, watch, rewriteCache,
          importerMap, importeeMap, hmrBoundaries, hmrDirtyFilesMap,
          latestVersionsMap, clock, nreq, nmods, requestedUrls,
          abortedImporters, watched, last>>

\* Map<string, Set<string>> as a function on the keys present
MapHas(m, k) == k \in DOMAIN m
MapSet(m, k, v) == [x \in DOMAIN m \cup {k} |-> IF x = k THEN v ELSE m[x]]
MapDel(m, k) == [x \in DOMAIN m \ {k} |-> m[x]]
EmptyMap == [x \in {} |-> {}]

\* serverPluginHmr: ensureMapEntry(map, key).add(value)
EnsureAdd(m, k, v) == MapSet(m, k, (IF MapHas(m, k) THEN m[k] ELSE {}) \cup {v})

\* ------------------------------------------------------- resolveImport
\* lines 282-286: mark non-src imports
\* (a variant that marks whatever the query already holds)
MarkNonSrcAlways(pathname, query) ==
  IF IsNonSrcFile(pathname)
  THEN query \o <<Param(IF query = <<>> THEN "?" ELSE "&", "import", 0)>>
  ELSE query
MarkNonSrc(pathname, query) ==
  IF query = <<>> /\ IsNonSrcFile(pathname)
  THEN query \o <<Param("?", "import", 0)>>
  ELSE query

resolveImport(importer, id0, timestamp) ==
  LET id1 == alias(id0)
      id2 == IF bareImportRE(id1)
             THEN Plain("/@modules/" \o resolveBareModuleRequest(id1))
             ELSE LET r == resolveRelativeRequest(id1)
                      pathname == normalizePublicPath(r.pathname)
                      query == MarkNonSrc(pathname, r.query)
                  IN Id(pathname, query)
      cleanId == cleanUrl(id2)
  IN IF timestamp # NoT
     THEN IF timestamp \in DOMAIN hmrDirtyFilesMap
             /\ cleanId \in hmrDirtyFilesMap[timestamp]
          THEN AppendT(id2, timestamp)
          ELSE IF MapHas(latestVersionsMap, cleanId)
               THEN AppendT(id2, latestVersionsMap[cleanId])
               ELSE id2
     ELSE id2

\* ------------------------------------------------------ rewriteImports
RECURSIVE ImportIdx(_, _)
ImportIdx(source, i) ==
  IF i > Len(source) THEN <<>>
  ELSE IF source[i].k = "import" THEN <<i>> \o ImportIdx(source, i + 1)
       ELSE ImportIdx(source, i + 1)

ParseFails(source) == \E i \in 1..Len(source) : source[i].k = "jsx"
\* parseImports(source)[0], [] when the lexer throws
parseImports(source) == IF ParseFails(source) THEN <<>> ELSE ImportIdx(source, 1)
IncludesHot(source) == \E i \in 1..Len(source) : source[i].k \in {"hot", "accept"}
IncludesEnv(source) == \E i \in 1..Len(source) : source[i].k = "env"

\* MagicString: the text under edit and what was prepended to it
NewMagicString(source) == [pre |-> <<>>, text |-> source]
overwrite(s, i, id) == [s EXCEPT !.text[i].id = id]
prepend(s, toks) == [s EXCEPT !.pre = toks \o @]
toString(s) == s.pre \o s.text

\* lines 195-199: the edge is recorded unless the module imports itself or
\* the client
\* (a variant that records every edge)
TrackedAlways(importee, importer) == TRUE
Tracked(importee, importer) ==
  importee # importer /\ importee # clientPublicPath

\* One pass of the for loop over the imports, lines 155-206, on the import
\* at position i; st.threw is set when resolveImport throws, the rest of st
\* is what the loop has done by then.
ImportStep(source, i, importer, timestamp, st) ==
  LET tok == source[i]
  IN IF tok.dyn = "expr" \/ isExternalUrl(tok.id)
     THEN st
     ELSE IF ResolveThrows(tok.id)
     THEN [st EXCEPT !.threw = TRUE]
     ELSE LET resolved == resolveImport(importer, tok.id, timestamp)
              importee == cleanUrl(resolved)
              track == Tracked(importee, importer)
          IN [s |-> IF resolved # tok.id
                    THEN overwrite(st.s, i, resolved) ELSE st.s,
              hasReplaced |-> st.hasReplaced \/ resolved # tok.id,
              currentImportees |->
                IF track THEN st.currentImportees \cup {importee}
                ELSE st.currentImportees,
              importerMap |->
                IF track THEN EnsureAdd(st.importerMap, importee, importer)
                ELSE st.importerMap,
              threw |-> FALSE]

\* the for loop, lines 154-207: the passes in order, up to a throw
RECURSIVE ImportLoop(_, _, _, _, _)
ImportLoop(source, idxs, importer, timestamp, st) ==
  IF idxs = <<>> THEN st
  ELSE CHOOSE out \in
         {IF st1.threw THEN st1
          ELSE ImportLoop(source, Tail(idxs), importer, timestamp, st1) :
            st1 \in {ImportStep(source, Head(idxs), importer, timestamp, st)}} :
         TRUE

\* serverPluginHmr: rewriteFileWithHMR prepends the hot context and records
\* a module that calls import.meta.hot.accept() as a boundary
HmrPreamble == <<Tok("import", "static", clientPublicPath), Code("hot")>>
EnvPreamble == <<Tok("import", "static", envPublicPath), Code("env")>>
SelfAccepts(source) == \E i \in 1..Len(source) : source[i].k = "accept"

\* lines 224-235: take the importer out of the importees it no longer has
\* (a variant that does not look at the importees just collected)
ReconcileAllPrev(imap, prevImportees, currentImportees, importer) ==
  [x \in DOMAIN imap |->
     IF x \in prevImportees THEN imap[x] \ {importer} ELSE imap[x]]
Reconcile(imap, prevImportees, currentImportees, importer) ==
  [x \in DOMAIN imap |->
     IF x \in prevImportees /\ x \notin currentImportees
     THEN imap[x] \ {importer} ELSE imap[x]]

\* Lines 209-246, after the loop has ended in state st: the injections and
\* the reconciliation, or the state the exception leaves behind.  The
\* result of one call: the body returned, the graph afterwards, and
\* (history) whether an exception was thrown, whether the block at lines
\* 144-241 was entered and which importees the loop collected.
Unchanged(source) ==
  [body |-> source, importerMap |-> importerMap, importeeMap |-> importeeMap,
   hmrBoundaries |-> hmrBoundaries, threw |-> FALSE, propagated |-> FALSE,
   entered |-> FALSE, collected |-> {}]

AfterLoop(source, importer, prevImportees, st) ==
  LET hasHMR == IncludesHot(source)
      hasEnv == IncludesEnv(source)
      s2 == IF hasHMR THEN prepend(st.s, HmrPreamble) ELSE st.s
      s3 == IF hasEnv THEN prepend(s2, EnvPreamble) ELSE s2
      hasReplaced == st.hasReplaced \/ hasHMR \/ hasEnv
  IN IF st.threw
     THEN [Unchanged(source) EXCEPT
             !.body = toString(st.s),
             !.importerMap = st.importerMap,
             !.importeeMap = MapSet(importeeMap, importer, st.currentImportees),
             !.threw = TRUE, !.entered = TRUE,
             !.collected = st.currentImportees]
     ELSE [body |-> IF hasReplaced THEN toString(s3) ELSE source,
           importerMap |-> Reconcile(st.importerMap, prevImportees,
                                     st.currentImportees, importer),
           importeeMap |-> MapSet(importeeMap, importer, st.currentImportees),
           hmrBoundaries |-> IF hasHMR /\ SelfAccepts(source)
                             THEN hmrBoundaries \cup {importer}
                             ELSE hmrBoundaries,
           threw |-> FALSE, propagated |-> FALSE, entered |-> TRUE,
           collected |-> st.currentImportees]

\* The try block, lines 127-246
TryBlock(source, importer, timestamp) ==
  LET imports == parseImports(source)
      prevImportees == IF MapHas(importeeMap, importer)
                       THEN importeeMap[importer] ELSE {}
  IN IF imports # <<>> \/ IncludesHot(source) \/ IncludesEnv(source)
     THEN CHOOSE out \in
            {AfterLoop(source, importer, prevImportees, st) :
               st \in {ImportLoop(source, imports, importer, timestamp,
                          [s |-> NewMagicString(source), hasReplaced |-> FALSE,
                           currentImportees |-> {},
                           importerMap |-> importerMap, threw |-> FALSE])}} :
            TRUE
     ELSE Unchanged(source)

\* The catch block, lines 247-254: log and return the source
\* (a variant that returns the text as edited up to the exception)
CatchReturnsEdited(r, source) == r
CatchBlock(r, source) == [r EXCEPT !.body = source]

rewriteImports(source, importer, timestamp) ==
  CHOOSE out \in
    {IF r.threw THEN CatchBlock(r, source) ELSE r :
       r \in {TryBlock(source, importer, timestamp)}} : TRUE

\* ---------------------------------------------------------- cachedRead
\* etag(content): the size of the content and a digest of it; the digest
\* of a content is written as the content it is the digest of
getETag(content) == [size |-> Len(content), sha1 |-> content]
NoTag == [size |-> 0, sha1 |-> <<>>]
ETags == {getETag(c) : c \in AllContents}

\* resolver.requestToFile / fileToRequest: files are named by public path
requestToFile(path) == path
fileToRequest(file) == file

\* line 38: cached && cached.lastModified === lastModified
\* (a variant that does not compare the mtime)
CacheHitAnyMtime(file, lastModified) == MapHas(fsReadCache, file)
CacheHit(file, lastModified) ==
  MapHas(fsReadCache, file) /\ fsReadCache[file].lastModified = lastModified

\* line 45: the request's If-None-Match is the entry's etag and the url
\* was seen before
\* (a variant that does not consult seenUrls)
NotModifiedUnseen(inm, etag, url) == inm = etag
NotModified(inm, etag, url) == inm = etag /\ url \in seenUrls

\* watchFileIfOutOfRoot: the watcher's added files after the call
watchFileIfOutOfRoot(w, file) ==
  IF ~startsWith(FsPath(file), root) /\ ~TestNodeModules(FsPath(file))
  THEN w \cup {file} ELSE w

\* lines 55-60: the entry stored after a read
\* (a variant that records a later mtime than the one stat returned)
CacheEntryLater(content, lastModified) ==
  [content |-> content, etag |-> getETag(content), lastModified |-> lastModified + 1]
CacheEntry(content, lastModified) ==
  [content |-> content, etag |-> getETag(content), lastModified |-> lastModified]

\* -------------------------------------------------------- middlewares
\* index.ts 83-124: the middlewares in the order app.use registers them
\* (no user plugin, no custom transform, esbuild enabled)
\* (a variant that registers the rewrite plugin ahead of all others)
RegisteredRewriteFirst ==
  <<"moduleRewritePlugin", "context", "sourceMapPlugin", "htmlRewritePlugin",
    "envPlugin", "moduleResolvePlugin", "proxyPlugin", "clientPlugin",
    "hmrPlugin", "vuePlugin", "cssPlugin", "esbuildPlugin", "jsonPlugin",
    "assetPathPlugin", "webWorkerPlugin", "wasmPlugin", "serveStaticPlugin">>
Registered ==
  <<"context", "sourceMapPlugin", "moduleRewritePlugin", "htmlRewritePlugin",
    "envPlugin", "moduleResolvePlugin", "proxyPlugin", "clientPlugin",
    "hmrPlugin", "vuePlugin", "cssPlugin", "esbuildPlugin", "jsonPlugin",
    "assetPathPlugin", "webWorkerPlugin", "wasmPlugin", "serveStaticPlugin">>
IndexOf(name) == CHOOSE i \in 1..Len(Registered) : Registered[i] = name
\* koa-compose: middleware i runs with next = dispatch(i + 1).  When the
\* middleware `name` runs, those registered before it have called next()
\* and wait for it to return.
Awaiting(name) == SubSeq(Registered, 1, IndexOf(name) - 1)

\* ------------------------------------------------------------ requests
Slots == {"r1", "r2"}
Queries == {<<>>, <<Param("?", "x", 1)>>, <<Param("?", "t", 1)>>}
ModuleUrls == {Id("/a.js", q) : q \in Queries} \cup {Plain("/b.js")}
AssetUrls == {Plain(f) : f \in AssetFiles}

\* awaiting: the middlewares whose call of next() has not returned.
\* history: clean, no write to the file since this request's cachedRead
\* began; clock0, the last timestamp handed out when the request arrived;
\* twinned, the last rewrite that ran while this request waited at
\* `await initLexer` was that of another plain request for the same url with
\* the same body, and twinBody is the body that request was answered with
IdleCtx == [phase |-> "idle", url |-> NoId, status |-> 404, body |-> NoBody,
            etag |-> NoTag, lastModified |-> 0, rd |-> NoBody, clean |-> TRUE,
            clock0 |-> 0, twinned |-> FALSE, twinBody |-> NoBody,
            awaiting |-> <<>>]
IdleWatch == [phase |-> "idle", lastModified |-> 0, rd |-> NoBody]

NoEntry == [content |-> NoBody, etag |-> NoTag, lastModified |-> 0 - 1]
EntryOf(file) == IF MapHas(fsReadCache, file) THEN fsReadCache[file] ELSE NoEntry

NoLast == [op |-> "init", who |-> "", url |-> NoId, hit |-> FALSE, prev |-> NoEntry,
           inm |-> NoTag, seenBefore |-> FALSE, first |-> FALSE,
           threw |-> FALSE, entered |-> FALSE, collected |-> {},
           source |-> NoBody, t |-> NoT, pending |-> FALSE, clock0 |-> 0,
           twinned |-> FALSE, prevImportees |-> {}]

Init ==
  /\ fs = [f \in Files |->
             [content |-> InitialContent(f), mtime |-> 0]]
  /\ changed = {}
  /\ fsReadCache = [x \in {} |-> NoEntry]
  /\ seenUrls = {}
  /\ ctx = [c \in Slots |-> IdleCtx]
  /\ watch = [f \in Files |-> IdleWatch]
  /\ rewriteCache = [x \in {} |-> NoBody]
  /\ importerMap = EmptyMap
  /\ importeeMap = EmptyMap
  /\ hmrBoundaries = {}
  /\ hmrDirtyFilesMap = EmptyMap
  /\ latestVersionsMap = [x \in {} |-> 0]
  /\ clock = 0
  /\ nreq = 0
  /\ nmods = 0
  /\ requestedUrls = {}
  /\ abortedImporters = {}
  /\ watched = {}
  /\ last = NoLast

\* A request arrives and goes down the middlewares to the static file
\* server, which calls ctx.read(file); cachedRead runs to its return on a
\* hit (lines 32-52), and the middlewares behind the rewrite middleware
\* return, or to the suspension at fs.readFile on a miss (lines 32-54).
RequestStart(c, url, inm) ==
  LET file == requestToFile(url.p)
      lastModified == fs[file].mtime
  IN /\ ctx[c].phase \in {"idle", "done"}
     /\ inm \in {NoTag} \cup {getETag(x) : x \in Contents(file)}
     /\ nreq < MaxRequests
     /\ nreq' = nreq + 1
     /\ requestedUrls' = requestedUrls \cup {url}
     /\ IF CacheHit(file, lastModified)
        THEN LET cached == fsReadCache[file]
             IN /\ ctx' = [ctx EXCEPT ![c] =
                      [IdleCtx EXCEPT
                         !.phase = "body", !.url = url, !.etag = cached.etag,
                         !.awaiting = Awaiting("moduleRewritePlugin"),
                         !.clock0 = clock,
                         !.lastModified = cached.lastModified,
                         !.status = IF NotModified(inm, cached.etag, url)
                                    THEN 304 ELSE 200,
                         !.body = cached.content]]
                /\ seenUrls' = seenUrls \cup {url}
        ELSE /\ ctx' = [ctx EXCEPT ![c] =
                   [IdleCtx EXCEPT !.phase = "reading", !.url = url,
                                   !.awaiting = Awaiting("serveStaticPlugin"),
                                   !.clock0 = clock,
                                   !.lastModified = lastModified]]
             /\ UNCHANGED seenUrls
     /\ last' = [NoLast EXCEPT !.op = "start", !.who = c, !.url = url,
                   !.hit = CacheHit(file, lastModified), !.prev = EntryOf(file),
                   !.inm = IF CacheHit(file, lastModified) THEN inm ELSE NoTag,
                   !.seenBefore = url \in seenUrls,
                   !.first = url \notin requestedUrls]
     /\ UNCHANGED <<fs, changed, fsReadCache, watch, rewriteCache, importerMap,
                    importeeMap, hmrBoundaries, hmrDirtyFilesMap,
                    latestVersionsMap, clock, abortedImporters, nmods,
                 watched>>

\* fs.readFile (line 54) reads the bytes the file holds at that moment
ReadFile(c) ==
  /\ ctx[c].phase = "reading"
  /\ ctx' = [ctx EXCEPT ![c].phase = "read",
                        ![c].rd = fs[requestToFile(ctx[c].url.p)].content]
  /\ last' = NoLast
  /\ UNCHANGED <<fs, changed, fsReadCache, seenUrls, watch, rewriteCache,
                 importerMap, importeeMap, hmrBoundaries, hmrDirtyFilesMap,
                 latestVersionsMap, clock, nreq, requestedUrls,
                 abortedImporters, nmods,
                 watched>>

\* cachedRead resumes after the read, lines 55-73; the static file server
\* and the middlewares behind the rewrite middleware return
CachedReadReturn(c) ==
  LET file == requestToFile(ctx[c].url.p)
      entry == CacheEntry(ctx[c].rd, ctx[c].lastModified)
  IN /\ ctx[c].phase = "read"
     /\ fsReadCache' = MapSet(fsReadCache, file, entry)
     /\ ctx' = [ctx EXCEPT ![c].phase = "body", ![c].etag = entry.etag,
                           ![c].body = entry.content, ![c].status = 200,
                           ![c].rd = NoBody,
                           ![c].awaiting = Awaiting("moduleRewritePlugin")]
     /\ last' = [NoLast EXCEPT !.op = "return", !.who = c, !.url = ctx[c].url,
                   !.prev = EntryOf(file)]
     /\ watched' = watchFileIfOutOfRoot(watched, file)
     /\ UNCHANGED <<fs, changed, seenUrls, watch, rewriteCache, importerMap,
                    importeeMap, hmrBoundaries, hmrDirtyFilesMap,
                    latestVersionsMap, clock, nreq, requestedUrls,
                 abortedImporters, nmods>>

\* --------------------------------------------------- moduleRewritePlugin
\* The rewrite middleware after `await next()`, lines 57-82: a 304 is left
\* alone; otherwise the body is looked up in the rewrite cache under
\* publicPath + content, and a miss suspends at `await initLexer`.
CacheKey(publicPath, content) == <<publicPath, content>>
\* ctx.response.is('js'): the type cachedRead set from the file's extension
IsJs(path) == path \in ModuleFiles
\* (a variant that takes no request for an HMR refetch)
IsHmrRequestNever(url) == FALSE
IsHmrRequest(url) == QueryT(url) # NoT

\* the rewrite middleware returns and so do those that awaited it: the
\* response is complete; the history of the request ends with it
Respond(cx) == [cx EXCEPT !.phase = "done", !.clean = TRUE, !.clock0 = 0,
                          !.twinned = FALSE, !.twinBody = NoBody,
                          !.awaiting = <<>>]

\* (history) what the request in slot d, waiting at `await initLexer`, sees of
\* a rewrite that answers the request for url with body content by out
Overtaken(cx, url, content, out) ==
  IF cx.phase # "lexer" THEN cx
  ELSE IF cx.url = url /\ cx.body = content /\ ~IsHmrRequest(url)
       THEN [cx EXCEPT !.twinned = TRUE, !.twinBody = out]
       ELSE [cx EXCEPT !.twinned = FALSE, !.twinBody = NoBody]

RewriteLookup(c) ==
  LET cacheKey == CacheKey(ctx[c].url.p, ctx[c].body)
  IN /\ ctx[c].phase = "body"
     /\ ctx' = [ctx EXCEPT ![c] =
          IF ctx[c].status = 304 \/ ctx[c].body = NoBody
             \/ ~IsJs(ctx[c].url.p) \/ ctx[c].url.p = clientPublicPath.p
          THEN Respond(@)
          ELSE IF ~IsHmrRequest(ctx[c].url) /\ MapHas(rewriteCache, cacheKey)
               THEN [Respond(@) EXCEPT !.body = rewriteCache[cacheKey]]
               ELSE [@ EXCEPT !.phase = "lexer", !.clean = TRUE]]
     /\ last' = [NoLast EXCEPT !.op = "lookup", !.who = c, !.url = ctx[c].url,
                   !.source = ctx[c].body, !.clock0 = ctx[c].clock0,
                   !.hit = /\ ctx[c].status # 304
                           /\ IsJs(ctx[c].url.p)
                           /\ ~IsHmrRequest(ctx[c].url)
                           /\ MapHas(rewriteCache, cacheKey)]
     /\ UNCHANGED <<fs, changed, fsReadCache, seenUrls, watch, rewriteCache,
                    importerMap, importeeMap, hmrBoundaries, hmrDirtyFilesMap,
                    latestVersionsMap, clock, nreq, requestedUrls,
                    abortedImporters, nmods,
                 watched>>

\* lines 90-92
Importer(url) ==
  removeUnRelatedHmrQuery([url EXCEPT !.p = normalizePublicPath(url.p)])

\* The middleware resumes after `await initLexer`, lines 84-103.  An
\* exception leaving rewriteImports would end the request with Koa's 500.
RewriteRun(c) ==
  LET url == ctx[c].url
      content == ctx[c].body
      importer == Importer(url)
  IN \E r \in {rewriteImports(content, importer, QueryT(url))} :
     /\ ctx[c].phase = "lexer"
     /\ importerMap' = r.importerMap
     /\ importeeMap' = r.importeeMap
     /\ hmrBoundaries' = r.hmrBoundaries
     /\ IF r.propagated
        THEN /\ ctx' = [ctx EXCEPT ![c] =
                         [Respond(@) EXCEPT !.status = 500, !.body = NoBody]]
             /\ UNCHANGED rewriteCache
        ELSE /\ ctx' = [d \in Slots |->
                         IF d = c THEN [Respond(ctx[c]) EXCEPT !.body = r.body]
                         ELSE Overtaken(ctx[d], url, content, r.body)]
             /\ rewriteCache' =
                  IF ~IsHmrRequest(url)
                  THEN MapSet(rewriteCache, CacheKey(url.p, content), r.body)
                  ELSE rewriteCache
     /\ abortedImporters' =
          IF r.threw THEN abortedImporters \cup {importer}
          ELSE abortedImporters \ {importer}
     /\ last' = [NoLast EXCEPT !.op = "rewrite", !.who = c, !.url = url,
                   !.source = content, !.t = QueryT(url), !.threw = r.threw,
                   !.entered = r.entered, !.collected = r.collected,
                   !.pending = importer \in abortedImporters,
                   !.clock0 = ctx[c].clock0, !.twinned = ctx[c].twinned,
                   !.prevImportees = IF MapHas(importeeMap, importer)
                                     THEN importeeMap[importer] ELSE {}]
     /\ UNCHANGED <<fs, changed, fsReadCache, seenUrls, watch, hmrDirtyFilesMap,
                    latestVersionsMap, clock, nreq, requestedUrls, nmods,
                 watched>>

\* ------------------------------------------------------- disk and watcher
\* Something outside the server writes a file: new bytes, or the same bytes
\* touched; the file system advances the mtime or (a write within the
\* timestamp's granularity) leaves it.
ModifyFile(f, content, mtime) ==
  /\ nmods < MaxMods
  /\ nmods' = nmods + 1
  /\ <<content, mtime>> # <<fs[f].content, fs[f].mtime>>
  /\ fs' = [fs EXCEPT ![f] = [content |-> content, mtime |-> mtime]]
  /\ changed' = changed \cup {f}
  /\ last' = NoLast
  /\ ctx' = [c \in Slots |->
               IF ctx[c].phase \in {"reading", "read"}
                  /\ requestToFile(ctx[c].url.p) = f
               THEN [ctx[c] EXCEPT !.clean = FALSE] ELSE ctx[c]]
  /\ UNCHANGED <<fsReadCache, seenUrls, watch, rewriteCache, importerMap,
                 importeeMap, hmrBoundaries, hmrDirtyFilesMap, latestVersionsMap,
                 clock, nreq, requestedUrls, abortedImporters,
                 watched>>

\* serverPluginHmr, change handler: the upward walk over the importers
\* from the changed module, which does not pass a self-accepting module
RECURSIVE WalkUp(_, _)
WalkUp(frontier, visited) ==
  LET next == UNION {IF MapHas(importerMap, n) /\ n \notin hmrBoundaries
                     THEN importerMap[n] ELSE {} : n \in frontier} \ visited
  IN IF next = {} THEN visited ELSE WalkUp(next, visited \cup next)

DirtyFiles(cleanId) ==
  {cleanId} \cup {n \in WalkUp({cleanId}, {cleanId}) : n \notin hmrBoundaries}

\* The 'change' event of a file is delivered.  The rewrite plugin's listener
\* (lines 111-116) runs to the await on cachedRead(null, file): on a hit of
\* the file cache the read returns at once and the cache key is deleted, on
\* a miss the listener is suspended at fs.readFile.  The HMR plugin's
\* listener then records the version and the dirty set under a new timestamp.
WatcherChangeUpTo(f, maxClock) ==
  LET publicPath == fileToRequest(f)
      lastModified == fs[f].mtime
      timestamp == clock + 1
      cleanId == Plain(publicPath)
  IN /\ f \in changed
     /\ watch[f].phase = "idle"
     /\ clock < maxClock
     /\ changed' = changed \ {f}
     /\ clock' = timestamp
     /\ latestVersionsMap' = MapSet(latestVersionsMap, cleanId, timestamp)
     /\ hmrDirtyFilesMap' = MapSet(hmrDirtyFilesMap, timestamp, DirtyFiles(cleanId))
     /\ IF CacheHit(f, lastModified)
        THEN /\ rewriteCache' =
                  MapDel(rewriteCache, CacheKey(publicPath, fsReadCache[f].content))
             /\ UNCHANGED watch
        ELSE /\ watch' = [watch EXCEPT ![f] =
                            [IdleWatch EXCEPT !.phase = "reading",
                                              !.lastModified = lastModified]]
             /\ UNCHANGED rewriteCache
     /\ last' = [NoLast EXCEPT !.op = "change", !.who = f, !.t = timestamp,
                   !.hit = CacheHit(f, lastModified)]
     /\ UNCHANGED <<fs, fsReadCache, seenUrls, ctx, importerMap, importeeMap,
                    hmrBoundaries, nreq, requestedUrls, abortedImporters, nmods,
                 watched>>

WatcherChange(f) == WatcherChangeUpTo(f, MaxClock)

\* fs.readFile of the listener's cachedRead reads the file
WatcherReadFile(f) ==
  /\ watch[f].phase = "reading"
  /\ watch' = [watch EXCEPT ![f].phase = "read", ![f].rd = fs[f].content]
  /\ last' = NoLast
  /\ UNCHANGED <<fs, changed, fsReadCache, seenUrls, ctx, rewriteCache,
                 importerMap, importeeMap, hmrBoundaries, hmrDirtyFilesMap,
                 latestVersionsMap, clock, nreq, requestedUrls, abortedImporters, nmods,
                 watched>>

\* cachedRead(null, file) stores the entry and returns (lines 55-73); the
\* listener resumes and deletes publicPath + content (lines 113-115)
WatcherBust(f) ==
  /\ watch[f].phase = "read"
  /\ fsReadCache' = MapSet(fsReadCache, f, CacheEntry(watch[f].rd, watch[f].lastModified))
  /\ rewriteCache' = MapDel(rewriteCache, CacheKey(fileToRequest(f), watch[f].rd))
  /\ watch' = [watch EXCEPT ![f] = IdleWatch]
  /\ last' = [NoLast EXCEPT !.op = "bust", !.who = f]
  /\ UNCHANGED <<fs, changed, seenUrls, ctx, importerMap, importeeMap,
                 hmrBoundaries, hmrDirtyFilesMap, latestVersionsMap, clock, nreq,
                 requestedUrls, abortedImporters, nmods,
                 watched>>

\* cachedRead(null, file) of a caller other than the change listener: on a
\* hit it returns the cached content and changes nothing; on a miss it
\* runs to fs.readFile (lines 32-54), reads, and stores the entry (55-60);
\* without a context it skips lines 61-71
ContextlessRead(f) ==
  /\ watch[f].phase = "idle"
  /\ ~CacheHit(f, fs[f].mtime)
  /\ watch' = [watch EXCEPT ![f] = [IdleWatch EXCEPT !.phase = "nreading",
                                       !.lastModified = fs[f].mtime]]
  /\ last' = NoLast
  /\ UNCHANGED <<fs, changed, fsReadCache, seenUrls, ctx, rewriteCache,
                 importerMap, importeeMap, hmrBoundaries, hmrDirtyFilesMap,
                 latestVersionsMap, clock, nreq, requestedUrls,
                 abortedImporters, nmods, watched>>

ContextlessReadFile(f) ==
  /\ watch[f].phase = "nreading"
  /\ watch' = [watch EXCEPT ![f].phase = "nread", ![f].rd = fs[f].content]
  /\ last' = NoLast
  /\ UNCHANGED <<fs, changed, fsReadCache, seenUrls, ctx, rewriteCache,
                 importerMap, importeeMap, hmrBoundaries, hmrDirtyFilesMap,
                 latestVersionsMap, clock, nreq, requestedUrls,
                 abortedImporters, nmods, watched>>

ContextlessReturn(f) ==
  /\ watch[f].phase = "nread"
  /\ fsReadCache' = MapSet(fsReadCache, f, CacheEntry(watch[f].rd, watch[f].lastModified))
  /\ watch' = [watch EXCEPT ![f] = IdleWatch]
  /\ last' = [NoLast EXCEPT !.op = "nullread", !.who = f]
  /\ UNCHANGED <<fs, changed, seenUrls, ctx, rewriteCache, importerMap,
                 importeeMap, hmrBoundaries, hmrDirtyFilesMap,
                 latestVersionsMap, clock, nreq, requestedUrls,
                 abortedImporters, nmods, watched>>

\* Module requests: one request at a time walks the whole pipeline; the
\* client sends no If-None-Match or the ETag the file cache holds; every
\* write to disk advances the file's mtime.
ClientTags(file) ==
  {NoTag} \cup (IF MapHas(fsReadCache, file) THEN {fsReadCache[file].etag} ELSE {})

Next ==
  \/ \E url \in ModuleUrls, inm \in ETags \cup {NoTag} :
       /\ inm \in ClientTags(requestToFile(url.p))
       /\ RequestStart("r1", url, inm)
  \/ ReadFile("r1")
  \/ CachedReadReturn("r1")
  \/ RewriteLookup("r1")
  \/ RewriteRun("r1")
  \/ \E f \in ModuleFiles, content \in AllContents :
       /\ content \in Contents(f)
       /\ ModifyFile(f, content, fs[f].mtime + 1)
  \/ \E f \in ModuleFiles : WatcherChange(f)
  \/ \E f \in ModuleFiles : WatcherReadFile(f)
  \/ \E f \in ModuleFiles : WatcherBust(f)

Spec == Init /\ [][Next]_vars

\* Asset requests: requests that overlap each other, the disk writes and the
\* watcher's reads exercise cachedRead alone (the rewrite middleware skips a
\* body that is no script); a write may leave the mtime as it was.
NextRead ==
  \/ \E c \in Slots, url \in AssetUrls, inm \in ETags \cup {NoTag} :
       /\ c = "r2" => ctx["r1"].phase \notin {"idle", "done"}
       /\ RequestStart(c, url, inm)
  \/ \E c \in Slots : ReadFile(c)
  \/ \E c \in Slots : CachedReadReturn(c)
  \/ \E c \in Slots : RewriteLookup(c)
  \/ \E f \in AssetFiles, content \in AllContents, mtime \in 0..MaxMods :
       /\ content \in Contents(f)
       /\ mtime \in {fs[f].mtime, fs[f].mtime + 1}
       /\ ModifyFile(f, content, mtime)
  \/ \E f \in AssetFiles : WatcherChange(f)
  \/ \E f \in AssetFiles : WatcherReadFile(f)
  \/ \E f \in AssetFiles : WatcherBust(f)

SpecRead == Init /\ [][NextRead]_vars

\* Overlapping module requests: two plain requests for /a.js, each walking
\* the whole pipeline, while a.js is written and its change events are
\* handled.
PairUrls == {Plain("/a.js")}
NextPair ==
  \/ \E c \in Slots, url \in PairUrls :
       /\ c = "r2" => ctx["r1"].phase \notin {"idle", "done"}
       /\ RequestStart(c, url, NoTag)
  \/ \E c \in Slots : ReadFile(c)
  \/ \E c \in Slots : CachedReadReturn(c)
  \/ \E c \in Slots : RewriteLookup(c)
  \/ \E c \in Slots : RewriteRun(c)
  \/ \E content \in Contents("/a.js") :
       ModifyFile("/a.js", content, fs["/a.js"].mtime + 1)
  \/ WatcherChange("/a.js")
  \/ WatcherReadFile("/a.js")
  \/ WatcherBust("/a.js")

SpecPair == Init /\ [][NextPair]_vars

\* Rewrites of many texts: plain requests for /a.js, one at a time, while
\* a.js is rewritten on disk with any of RewriteSources.
NextRewrite ==
  \/ \E inm \in ClientTags("/a.js") : RequestStart("r1", Plain("/a.js"), inm)
  \/ ReadFile("r1")
  \/ CachedReadReturn("r1")
  \/ RewriteLookup("r1")
  \/ RewriteRun("r1")
  \/ \E content \in RewriteSources :
       ModifyFile("/a.js", content, fs["/a.js"].mtime + 1)

SpecRewrite == Init /\ [][NextRewrite]_vars

\* HMR refetches: requests for /a.js with the timestamps of the changes of
\* b.js and logo.png, which a.js imports.
StampFiles == {"/b.js", "/logo.png"}
StampUrls == {Id("/a.js", q) : q \in {<<>>, <<Param("?", "t", 1)>>,
                                       <<Param("?", "t", 2)>>}}
NextStamp ==
  \/ \E url \in StampUrls : RequestStart("r1", url, NoTag)
  \/ ReadFile("r1")
  \/ CachedReadReturn("r1")
  \/ RewriteLookup("r1")
  \/ RewriteRun("r1")
  \/ \E f \in StampFiles, content \in AllContents :
       /\ content \in Contents(f)
       /\ ModifyFile(f, content, fs[f].mtime + 1)
  \/ \E f \in StampFiles : WatcherChangeUpTo(f, MaxStamp)
  \/ \E f \in StampFiles : WatcherReadFile(f)
  \/ \E f \in StampFiles : WatcherBust(f)

SpecStamp == Init /\ [][NextStamp]_vars

\* Files outside the root: requests for them, one at a time; ext.png is
\* also read without a context and written, and the watcher reports its
\* changes once it was added to it.
OutUrls == {Plain(f) : f \in OutFiles}
NextWatch ==
  \/ \E url \in OutUrls, inm \in ETags \cup {NoTag} :
       /\ inm \in ClientTags(requestToFile(url.p))
       /\ RequestStart("r1", url, inm)
  \/ ReadFile("r1")
  \/ CachedReadReturn("r1")
  \/ RewriteLookup("r1")
  \/ ContextlessRead("/ext.png")
  \/ ContextlessReadFile("/ext.png")
  \/ ContextlessReturn("/ext.png")
  \/ ModifyFile("/ext.png", Bytes2, fs["/ext.png"].mtime + 1)
  \/ "/ext.png" \in watched /\ WatcherChange("/ext.png")
  \/ WatcherReadFile("/ext.png")
  \/ WatcherBust("/ext.png")

SpecWatch == Init /\ [][NextWatch]_vars

\* Reads of an asset while it is written: requests that overlap each other,
\* reads without a context and the change listener's reads, with writes at
\* any point between them; every write advances the file's mtime.
NextFresh ==
  \/ \E c \in Slots, url \in AssetUrls, inm \in ETags \cup {NoTag} :
       /\ c = "r2" => ctx["r1"].phase \notin {"idle", "done"}
       /\ inm \in ClientTags(requestToFile(url.p))
       /\ RequestStart(c, url, inm)
  \/ \E c \in Slots : ReadFile(c)
  \/ \E c \in Slots : CachedReadReturn(c)
  \/ \E c \in Slots : RewriteLookup(c)
  \/ \E f \in AssetFiles : ContextlessRead(f)
  \/ \E f \in AssetFiles : ContextlessReadFile(f)
  \/ \E f \in AssetFiles : ContextlessReturn(f)
  \/ \E f \in AssetFiles, content \in AllContents :
       /\ content \in Contents(f)
       /\ ModifyFile(f, content, fs[f].mtime + 1)
  \/ \E f \in AssetFiles : WatcherChange(f)
  \/ \E f \in AssetFiles : WatcherReadFile(f)
  \/ \E f \in AssetFiles : WatcherBust(f)

SpecFresh == Init /\ [][NextFresh]_vars

\* ============================================================ properties
Importers(m, x) == IF MapHas(m, x) THEN m[x] ELSE {}
GraphIds == DOMAIN importerMap \cup DOMAIN importeeMap
                \cup UNION {importerMap[x] : x \in DOMAIN importerMap}
                \cup UNION {importeeMap[x] : x \in DOMAIN importeeMap}

\* a step of the rewrite middleware that ran rewriteImports has just ended
JustRewrote == last.op = "rewrite"
\* the importees the graph holds for importer m, seen from importerMap
ImportedBy(m) == {x \in DOMAIN importerMap : m \in importerMap[x]}

\* C1: for all modules a and b, b is in importerMap[a] exactly when a is in
\* importeeMap[b], in every state the server reaches.
C1_GraphSymmetric ==
  \A a \in GraphIds, b \in GraphIds :
    b \in Importers(importerMap, a) <=> a \in Importers(importeeMap, b)

\* C5: a call of rewriteImports that hits an internal exception ends the
\* request normally, its body the source that went in.
C5_FallbackToSource ==
  (JustRewrote /\ last.threw) =>
     /\ ctx[last.who].phase = "done"
     /\ ctx[last.who].status = 200
     /\ ctx[last.who].body = last.source

C5_Witness == JustRewrote /\ last.threw /\ ctx[last.who].body = SrcBroken

\* C6: when the last rewrite of importer m was aborted by an exception, the
\* next rewrite of m that completes without one leaves m in importerMap[x]
\* exactly for the x it collected, and importeeMap[m] equal to that set.
C6_NextRewriteReconciles ==
  (JustRewrote /\ ~last.threw /\ last.pending) =>
     LET m == Importer(last.url)
     IN /\ Importers(importeeMap, m) = last.collected
        /\ ImportedBy(m) = last.collected

\* the change handler of file f has just run to its end
ChangeHandled(f) ==
  last.who = f /\ (last.op = "bust" \/ (last.op = "change" /\ last.hit))

\* C9: once the change handler of a file has run to its end, the rewrite
\* cache holds no key that begins with the file's publicPath.
C9_ChangeEvictsByPrefix ==
  \A f \in Files :
    ChangeHandled(f) => \A key \in DOMAIN rewriteCache : key[1] # fileToRequest(f)

\* C10: no key and no member of importerMap or importeeMap carries a query.
C10_GraphIdsClean == \A x \in GraphIds : x.q = <<>>

\* specifiers that are PublicPaths; a rewrite without timestamp that did not
\* fall back; rewriting its output again gives that output
PublicPaths == JsPaths \cup {"/logo.png"}
Rewritable(tok) == tok.k = "import" /\ tok.dyn # "expr" /\ ~isExternalUrl(tok.id)
AllPublic(text) ==
  \A i \in 1..Len(text) : Rewritable(text[i]) => text[i].id.p \in PublicPaths
RewroteUntimed == JustRewrote /\ ~last.threw /\ last.t = NoT
RewriteAgainSame ==
  LET out == ctx[last.who].body
  IN rewriteImports(out, Importer(last.url), NoT).body = out

\* C7: rewriteImports (called without a timestamp) applied to an output of
\* its own whose specifiers are all PublicPaths returns that output.
C7_RewriteIdempotent ==
  (RewroteUntimed /\ AllPublic(ctx[last.who].body)) => RewriteAgainSame

\* C7 as amended: the same, for a source that mentions neither
\* import.meta.hot nor import.meta.env.
C7_RewriteIdempotentNoMeta ==
  (/\ RewroteUntimed
   /\ AllPublic(ctx[last.who].body)
   /\ ~IncludesHot(last.source)
   /\ ~IncludesEnv(last.source)) => RewriteAgainSame

C7_Witness ==
  /\ RewroteUntimed
  /\ last.source = SrcImportB
  /\ ctx[last.who].body # last.source
  /\ AllPublic(ctx[last.who].body)

ModuleA == "/a.js"
ModuleB == Plain("/b.js")
ImportsB(source) ==
  \E i \in 1..Len(source) :
    /\ Rewritable(source[i])
    /\ ~ResolveThrows(source[i].id)
    /\ cleanUrl(resolveImport(Plain(ModuleA), source[i].id, NoT)) = ModuleB
StampedB(body, T) ==
  \A i \in 1..Len(body) :
    (body[i].k = "import" /\ cleanUrl(body[i].id) = ModuleB)
       => body[i].id.q = <<Param("?", "t", T)>>
\* the request in slot last.who has just been answered by the rewrite
\* middleware, from the rewrite cache or by a rewrite
Served == JustRewrote \/ (last.op = "lookup" /\ last.hit)
AfterChangeOfB ==
  /\ last.url.p = ModuleA
  /\ ImportsB(last.source)
  /\ ModuleB \in hmrBoundaries
  /\ MapHas(latestVersionsMap, ModuleB)
  /\ latestVersionsMap[ModuleB] <= last.clock0

Completed(c) ==
  /\ last.who = c
  /\ (last.op = "start" /\ last.hit) \/ last.op = "return"
InFlight(c) == ctx[c].phase \notin {"idle", "done"}

\* C2: cachedRead leaves status 304 only on a request whose If-None-Match is
\* the file's ETag and whose URL was in seenUrls before the request, so
\* never on the first request for a URL.
C2_NotModifiedOnlyWhenSeen ==
  \A c \in Slots :
    (Completed(c) /\ ctx[c].status = 304) =>
       /\ last.op = "start"
       /\ last.inm = ctx[c].etag
       /\ ctx[c].etag = getETag(ctx[c].body)
       /\ last.seenBefore
       /\ ~last.first

C2_Witness ==
  \E c \in Slots : Completed(c) /\ ctx[c].status = 304 /\ last.seenBefore

\* C3: once cachedRead has answered a GET with 200 the URL is in seenUrls,
\* and the next GET of the URL, sent with the ETag of the untouched file
\* while no other request is in flight, is answered 304.
C3_SecondGetNotModified ==
  \A c \in Slots :
    /\ (Completed(c) /\ ctx[c].status = 200) => ctx[c].url \in seenUrls
    /\ (/\ Completed(c)
        /\ last.hit
        /\ ~last.first
        /\ last.inm = ctx[c].etag
        /\ \A d \in Slots \ {c} : ~InFlight(d)) => ctx[c].status = 304

\* the file of the request in slot c as it is on disk; a cachedRead that
\* follows an earlier read of the file, with no write to it during the call
DiskOf(c) == fs[requestToFile(ctx[c].url.p)]
ReadAgain(c) == Completed(c) /\ ctx[c].clean /\ last.prev # NoEntry
FreshBytes(c) ==
  ctx[c].body = DiskOf(c).content /\ ctx[c].etag # last.prev.etag

\* C4: a cachedRead that follows an earlier read of the file returns the new
\* bytes under another ETag if the bytes on disk differ from those of the
\* earlier read, and the earlier ETag if they do not.
C4_ChangedBytesNewETag ==
  \A c \in Slots :
    ReadAgain(c) =>
       IF DiskOf(c).content # last.prev.content
       THEN FreshBytes(c)
       ELSE ctx[c].etag = last.prev.etag

\* C4 as amended: the new bytes are returned when the write also moved the
\* file's mtime away from the one recorded at the earlier read.
C4_ChangedMtimeNewETag ==
  \A c \in Slots :
    ReadAgain(c) =>
       /\ (/\ DiskOf(c).content # last.prev.content
           /\ DiskOf(c).mtime # last.prev.lastModified) => FreshBytes(c)
       /\ DiskOf(c).content = last.prev.content => ctx[c].etag = last.prev.etag

C4_Witness ==
  \E c \in Slots :
    /\ ReadAgain(c)
    /\ DiskOf(c).content # last.prev.content
    /\ DiskOf(c).mtime # last.prev.lastModified
    /\ FreshBytes(c)

\* ------------------------------------------------ overlapping rewrites
\* the key under which the rewrite of the request in slot c is cached
KeyOf(c) == CacheKey(ctx[c].url.p, ctx[c].body)

\* C11: when two plain requests for the same url with the same body both
\* miss the rewrite cache before either stores, the rewrite that runs second
\* leaves the import graph as the first left it, answers with the body the
\* first answered with, and leaves that body in the rewrite cache.
C11_TwinRewriteChangesNothing ==
  [][\A c \in Slots :
       (ctx[c].phase = "lexer" /\ ctx[c].twinned /\ ctx'[c].phase = "done") =>
          /\ importerMap' = importerMap
          /\ importeeMap' = importeeMap
          /\ hmrBoundaries' = hmrBoundaries
          /\ ctx'[c].status = 200
          /\ ctx'[c].body = ctx[c].twinBody
          /\ MapHas(rewriteCache', KeyOf(c))
          /\ rewriteCache'[KeyOf(c)] = ctx[c].twinBody]_vars

C11_Witness ==
  /\ JustRewrote
  /\ last.twinned
  /\ last.source = SrcImportB
  /\ \A c \in Slots : ctx[c].phase = "done" /\ ctx[c].url = last.url
  /\ ctx["r1"].body = ctx["r2"].body

\* --------------------------------------------------- rewrites of a text
\* C12: a rewriteImports call that completes without exception leaves
\* importeeMap[importer] equal to the importees collected from the source,
\* and the importer out of importerMap[x] for every x of the previous
\* importee set that is not in the new one, whatever the source.
C12_ImporteesReplaced ==
  (JustRewrote /\ ~last.threw) =>
     LET m == Importer(last.url)
     IN /\ Importers(importeeMap, m) = last.collected
        /\ \A x \in last.prevImportees \ last.collected :
             m \notin Importers(importerMap, x)

\* the specifiers the lexer finds in a source; those the loop handles:
\* static imports and dynamic imports of a literal that are no external
\* urls; the edges they give
Specifiers(source) ==
  {i \in 1..Len(source) : \E j \in 1..Len(parseImports(source)) :
                            parseImports(source)[j] = i}
Handled(tok) == tok.dyn \in {"static", "literal"} /\ ~isExternalUrl(tok.id)
EdgesOf(source, m, timestamp) ==
  {cleanUrl(resolveImport(m, source[i].id, timestamp)) :
     i \in {j \in Specifiers(source) : Handled(source[j])}}
    \ {m, clientPublicPath}
\* the part of a returned body that is the source's own text
OwnText(body, source) == SubSeq(body, Len(body) - Len(source) + 1, Len(body))
RewriteEnds(c) == ctx[c].phase = "lexer" /\ ctx'[c].phase = "done"

\* C16: a rewrite of importer m that completes without exception records an
\* edge to x exactly for the handled specifiers whose cleaned resolved path
\* x is neither m nor the client; it leaves the other import specifiers as
\* they were in the text; and no module is its own importee.
C16_EdgesExactlyForHandled ==
  [][\A c \in Slots :
       (RewriteEnds(c) /\ ~last'.threw) =>
          LET source == ctx[c].body
              m == Importer(ctx[c].url)
              edges == EdgesOf(source, m, QueryT(ctx[c].url))
              before == ImportedBy(m)
              after == {x \in DOMAIN importerMap' : m \in importerMap'[x]}
          IN /\ last'.collected = edges
             /\ last'.entered => importeeMap'[m] = edges
             /\ edges \subseteq after
             /\ after \ before \subseteq edges
             /\ \A i \in 1..Len(source) :
                  (i \in Specifiers(source) /\ ~Handled(source[i])) =>
                     OwnText(ctx'[c].body, source)[i] = source[i]
             /\ \A x \in DOMAIN importeeMap' : x \notin importeeMap'[x]]_vars

C16_Witness ==
  /\ JustRewrote
  /\ ~last.threw
  /\ last.source = SrcMixed
  /\ importeeMap[Plain("/a.js")] = {Plain("/b.js")}
  /\ Plain("/a.js") \in importerMap[Plain("/b.js")]

\* C17: when the lexer fails on a source, rewriteImports returns the source
\* as it is, also when it mentions import.meta.hot or import.meta.env.
C17_ParseFailureKeepsSource ==
  (JustRewrote /\ ParseFails(last.source)) =>
     ctx[last.who].body = last.source

\* --------------------------------------------------- the rewrite cache
\* the request carries a `t` query
CarriesT(url) == \E i \in 1..Len(url.q) : url.q[i].k = "t"
\* the middleware looks at the body of the request in slot c (lines 66-72)
Looked(c) ==
  /\ ctx[c].phase = "body"
  /\ ctx[c].status # 304
  /\ ctx[c].body # NoBody
  /\ IsJs(ctx[c].url.p)
  /\ ctx[c].url.p # clientPublicPath.p

\* C13: a request with a `t` query is never answered from the rewrite cache
\* and never adds or replaces an entry of it; a request without `t` whose key
\* publicPath + body is cached is answered with the cached body and no
\* rewriteImports runs for it; otherwise the body its rewrite returns is
\* stored under that key.
C13_RewriteCacheFrame ==
  [][/\ \A c \in Slots :
          /\ (Looked(c) /\ ctx'[c].phase # "body") =>
                /\ rewriteCache' = rewriteCache
                /\ importerMap' = importerMap
                /\ importeeMap' = importeeMap
                /\ IF ~CarriesT(ctx[c].url) /\ MapHas(rewriteCache, KeyOf(c))
                   THEN /\ ctx'[c].phase = "done"
                        /\ ctx'[c].body = rewriteCache[KeyOf(c)]
                   ELSE ctx'[c].phase = "lexer"
          /\ (RewriteEnds(c) /\ ctx'[c].status = 200) =>
                IF CarriesT(ctx[c].url)
                THEN rewriteCache' = rewriteCache
                ELSE rewriteCache' = MapSet(rewriteCache, KeyOf(c), ctx'[c].body)
     /\ \A k \in DOMAIN rewriteCache' :
          (~MapHas(rewriteCache, k) \/ rewriteCache'[k] # rewriteCache[k]) =>
             \E c \in Slots : /\ RewriteEnds(c)
                              /\ ~CarriesT(ctx[c].url)
                              /\ k = KeyOf(c)]_vars

\* an HMR refetch whose key is cached was rewritten anew, to a body other
\* than the cached one, and the cache holds what it held
C13_Witness ==
  /\ JustRewrote
  /\ last.t # NoT
  /\ MapHas(rewriteCache, CacheKey(last.url.p, last.source))
  /\ rewriteCache[CacheKey(last.url.p, last.source)] # ctx[last.who].body
  /\ ctx[last.who].status = 200

\* --------------------------------------------------- timestamps of imports
\* specifiers: with and without a query of their own, of a script, of an
\* asset, of a package
StampIds == {Plain("./b"), Plain("./logo.png"), Plain("vue"),
             Id("./b", <<Param("?", "x", 1)>>),
             Id("./logo.png", <<Param("?", "x", 1)>>)}
\* the id with t=T behind it, after `?` when it has no query and `&` otherwise
Stamped(base, T) ==
  [base EXCEPT !.q = Append(@, Param(IF @ = <<>> THEN "?" ELSE "&", "t", T))]

\* C14: resolveImport appends a t parameter only when it is given a
\* timestamp: t=timestamp when the cleaned resolved id is in the dirty set of
\* that timestamp, else t=latestVersionsMap[cleanId] when a version is
\* recorded, else nothing; at most one parameter is appended, behind `?`
\* when the resolved id has no query and behind `&` otherwise.
C14_TimestampRule ==
  \A id \in StampIds, timestamp \in 0..(MaxStamp + 1) :
    LET base == resolveImport(Plain(ModuleA), id, NoT)
        cleanId == cleanUrl(base)
        out == resolveImport(Plain(ModuleA), id, timestamp)
    IN /\ ~CarriesT(base)
       /\ Len(out.q) <= Len(base.q) + 1
       /\ IF timestamp = NoT THEN out = base
          ELSE IF /\ MapHas(hmrDirtyFilesMap, timestamp)
                  /\ cleanId \in hmrDirtyFilesMap[timestamp]
               THEN out = Stamped(base, timestamp)
               ELSE IF MapHas(latestVersionsMap, cleanId)
                    THEN out = Stamped(base, latestVersionsMap[cleanId])
                    ELSE out = base

\* a refetch of a.js with timestamp 1 was answered: b.js, dirty at 1, is
\* imported with ?t=1 and logo.png, changed at 2, with ?import&t=2
C14_Witness ==
  /\ JustRewrote
  /\ last.t = 1
  /\ last.source = SrcImportB
  /\ ctx[last.who].body =
       <<Tok("import", "static", Id("/b.js", <<Param("?", "t", 1)>>)),
         Tok("import", "static",
             Id("/logo.png", <<Param("?", "import", 0), Param("&", "t", 2)>>))>>

\* --------------------------------------------------- files out of the root
\* the file lies outside the root directory; under a node_modules directory
OutsideRoot(file) ==
  ~(startsWith(FsPath(file), root \o <<"/">>) \/ FsPath(file) = root)
UnderNodeModules(file) ==
  \E i \in 2..(Len(FsPath(file)) - 1) :
    /\ FsPath(file)[i] = "node_modules"
    /\ FsPath(file)[i - 1] = "/"
    /\ FsPath(file)[i + 1] = "/"
\* cachedRead with the request's context has just returned
CtxReadReturned ==
  \/ last.op = "return"
  \/ last.op = "start" /\ last.hit

\* C18: when cachedRead with a request context returns for a file that lies
\* outside the project root and not under node_modules, the file is
\* registered with the watcher, whatever reads of the file came before.
C18_ServedOutOfRootWatched ==
  (CtxReadReturned
     /\ OutsideRoot(requestToFile(last.url.p))
     /\ ~UnderNodeModules(requestToFile(last.url.p)))
    => requestToFile(last.url.p) \in watched

\* --------------------------------------------------- order of middlewares
\* the logic of the rewrite middleware behind `await next()` is running or
\* suspended for the request in slot c
RewriteStep(c) == ctx[c].phase \in {"body", "lexer"}
\* the middlewares registered behind the rewrite middleware
Later == {Registered[i] : i \in (IndexOf("moduleRewritePlugin") + 1)..Len(Registered)}
InSeq(s) == {s[i] : i \in 1..Len(s)}

ServedPlain ==
  /\ \/ last.op = "lookup" /\ last.hit
     \/ last.op = "rewrite" /\ ~last.threw
  /\ last.url.q = <<>>
  /\ last.source = fs[requestToFile(last.url.p)].content
  /\ \A c \in Slots : ctx[c].phase \in {"idle", "done"}
\* every import of the source resolves
Resolvable(source) ==
  \A i \in Specifiers(source) : ~ResolveThrows(source[i].id)

\* C19: after a request without a query for module m is answered through the
\* rewrite middleware, importeeMap[m] is the importee set of the source
\* whose body was served, also when the body came from the rewrite cache
\* after m had been rewritten with another source in between.
C19_GraphReflectsServed ==
  (ServedPlain /\ Resolvable(last.source)) =>
     Importers(importeeMap, Importer(last.url))
       = EdgesOf(last.source, Importer(last.url), NoT)

\* --------------------------------------------------- fallback and the cache
\* C20: when rewriteImports falls back to the source after an exception,
\* the middleware does not store that body in the rewrite cache, so that a
\* later request with the same path and body runs the rewrite again.
C20_FallbackNotCached ==
  (JustRewrote /\ last.threw /\ ~CarriesT(last.url)) =>
     ~MapHas(rewriteCache, CacheKey(last.url.p, last.source))

\* --------------------------------------------------- freshness of the cache
\* the entry of file f carries the mtime the file has now
EntryCurrent(f) ==
  MapHas(fsReadCache, f) /\ fsReadCache[f].lastModified = fs[f].mtime

\* C21: with reads that overlap each other and writes between the stat and
\* the end of the read, every write advancing the mtime: an entry of the file
\* cache whose lastModified is the file's mtime holds the file's content and
\* the ETag of that content, and a cache hit answers with the file's content.
C21_CurrentEntryIsFresh ==
  /\ \A f \in Files :
       EntryCurrent(f) =>
          /\ fsReadCache[f].content = fs[f].content
          /\ fsReadCache[f].etag = getETag(fs[f].content)
  /\ (last.op = "start" /\ last.hit) =>
        /\ ctx[last.who].body = fs[requestToFile(last.url.p)].content
        /\ ctx[last.who].etag = getETag(fs[requestToFile(last.url.p)].content)

\* a request is answered by a cache hit with the bytes written while another
\* request, still under way, was between its stat and the end of its read
C21_Witness ==
  /\ last.op = "start"
  /\ last.hit
  /\ nmods >= 1
  /\ ctx[last.who].body = Bytes2
  /\ fs["/logo.png"].content = Bytes2
  /\ \E c \in Slots : c # last.who /\ ctx[c].phase = "body" /\ ~ctx[c].clean

====
